---- MODULE Spec2Model ----
(***************************************************************************)
(* State-machine model of SpotifyVoiceControl.py: the local command loop   *)
(* (R/P/T/V/Q), the MQTT control listener thread, the volume monitor       *)
(* threads and the external capture processes they start and stop.         *)
(* Strings that the program transforms are sequences of one-character      *)
(* strings; messages with a fixed text are TLA+ strings.                   *)
(***************************************************************************)
EXTENDS Integers, Sequences, FiniteSets, TLC

\* Number of process-table slots for capture processes (arecord).
MaxProcs == 2
\* Number of thread slots for volume monitor threads.
MaxMonitors == 2
\* adc.value is a number from 0.0 to 1.0: the samples are the multiples of
\* 1/AdcScale.
AdcScale == 1000

ProcIds == 1..MaxProcs
MonIds == 1..MaxMonitors

\* ------------------------------------------------------------------------
\* Python string operations used by parse_voice_command
\* ------------------------------------------------------------------------
UpperCase == <<"A","B","C","D","E","F","G","H","I","J","K","L","M",
               "N","O","P","Q","R","S","T","U","V","W","X","Y","Z">>
LowerCase == <<"a","b","c","d","e","f","g","h","i","j","k","l","m",
               "n","o","p","q","r","s","t","u","v","w","x","y","z">>
Whitespace == {" ", "\t", "\n"}

IndexIn(c, alphabet) ==
    IF \E i \in 1..Len(alphabet) : alphabet[i] = c
    THEN CHOOSE i \in 1..Len(alphabet) : alphabet[i] = c
    ELSE 0

lower_char(c) ==
    LET i == IndexIn(c, UpperCase) IN IF i = 0 THEN c ELSE LowerCase[i]

upper_char(c) ==
    LET i == IndexIn(c, LowerCase) IN IF i = 0 THEN c ELSE UpperCase[i]

\* str.lower()
lower(s) == [i \in 1..Len(s) |-> lower_char(s[i])]

RECURSIVE lstrip(_, _)
lstrip(s, chars) ==
    IF s # <<>> /\ Head(s) \in chars THEN lstrip(Tail(s), chars) ELSE s

RECURSIVE rstrip(_, _)
rstrip(s, chars) ==
    IF s # <<>> /\ s[Len(s)] \in chars
    THEN rstrip(SubSeq(s, 1, Len(s) - 1), chars)
    ELSE s

\* str.strip() with chars = Whitespace, str.strip(',.') with chars = {",", "."}
strip(s, chars) == rstrip(lstrip(s, chars), chars)

\* str.startswith(prefix)
startswith(s, prefix) ==
    Len(s) >= Len(prefix) /\ SubSeq(s, 1, Len(prefix)) = prefix

\* str.find(sub): the lowest 0-based index of sub in s, or -1
find(s, sub) ==
    LET hits == {i \in 0..(Len(s) - Len(sub)) : SubSeq(s, i + 1, i + Len(sub)) = sub}
    IN IF hits = {} THEN -1 ELSE CHOOSE i \in hits : \A j \in hits : i <= j

\* s[n:] and s[:n] for 0 <= n
slice_from(s, n) == SubSeq(s, n + 1, Len(s))
slice_to(s, n) == SubSeq(s, 1, n)

\* length of the leading run of non-whitespace characters
RECURSIVE word_len(_)
word_len(s) ==
    IF s = <<>> \/ Head(s) \in Whitespace THEN 0 ELSE 1 + word_len(Tail(s))

\* str.split(): the whitespace-separated words
RECURSIVE split(_)
split(s) ==
    LET t == lstrip(s, Whitespace) IN
    IF t = <<>> THEN <<>>
    ELSE <<slice_to(t, word_len(t))>> \o split(slice_from(t, word_len(t)))

\* a capitalize() that upper-cases the first character and keeps the others
capitalize_keeps_rest(w) ==
    IF w = <<>> THEN w ELSE <<upper_char(Head(w))>> \o Tail(w)

\* str.capitalize(): first character upper-cased, all the others lower-cased
capitalize(w) ==
    IF w = <<>> THEN w ELSE <<upper_char(Head(w))>> \o lower(Tail(w))

\* sep.join(words)
RECURSIVE join(_, _)
join(words, sep) ==
    IF words = <<>> THEN <<>>
    ELSE IF Len(words) = 1 THEN words[1]
    ELSE words[1] \o sep \o join(Tail(words), sep)

\* ' '.join(word.capitalize() for word in s.split())
capitalize_words(s) ==
    LET ws == split(s) IN
    join([i \in 1..Len(ws) |-> capitalize(ws[i])], <<" ">>)

\* parse_voice_command(transcript): "Play Song by Artist" -> "Song Artist"
parse_voice_command(transcript) ==
    LET text0 == strip(transcript, Whitespace)
        text_lower == lower(text0)
        text1 == IF startswith(text_lower, <<"p","l","a","y",","," ">>)
                 THEN strip(slice_from(text0, 6), Whitespace)
                 ELSE IF startswith(text_lower, <<"p","l","a","y"," ">>)
                 THEN strip(slice_from(text0, 5), Whitespace)
                 ELSE text0
        text == strip(text1, {",", "."})
        by_index == find(lower(text), <<" ","b","y"," ">>)
    IN  IF by_index # -1
        THEN LET song_name == capitalize_words(strip(slice_to(text, by_index), Whitespace))
                 artist_name == capitalize_words(strip(slice_from(text, by_index + 4), Whitespace))
             IN  song_name \o <<" ">> \o artist_name
        ELSE capitalize_words(text)

\* ------------------------------------------------------------------------
\* State
\* ------------------------------------------------------------------------
\* "main" is the command loop of lines 445-523, "mqtt" the listener thread
\* started by start_mqtt_listener (paho's loop_forever runs on_mqtt_message).
Threads == {"main", "mqtt"}

VARIABLES
    pc,                 \* [Threads -> position of the thread in the code]
    recording_process,  \* global recording_process: 0 is None, else a process id
    procs,              \* [ProcIds -> "none" | "running" | "terminating" | "exited"]
    localProc,          \* the process subprocess.run(RECORD_CMD) waits for (0: none)
    fileExists,         \* os.path.exists(AUDIO_FILE)
    statusTopic,        \* last message delivered on MQTT_STATUS_TOPIC
    queryTopic,         \* last message delivered on MQTT_TOPIC
    ret,                \* [Threads -> the value the thread's last call returned]
    transcript,         \* [Threads -> local variable transcript of transcribe_audio]
    adc_available,      \* global adc_available
    volume_monitoring,  \* global volume_monitoring
    volume_thread,      \* global volume_thread: 0 is None, else a thread id
    monitors,           \* [MonIds -> "none" (no live thread) | "loop" | "tick" | "set"]
    dispatchedAfterQuit, \* history: the message being handled arrived after Q was read
    adc_value,          \* local adc_value of the monitor loop, in units of 1/AdcScale
    actual_volume       \* local actual_volume of the monitor loop (0: not computed yet)

vars == <<pc, recording_process, procs, localProc, fileExists, statusTopic,
          queryTopic, ret, transcript, adc_available, volume_monitoring,
          volume_thread, monitors, dispatchedAfterQuit, adc_value, actual_volume>>

recVars == <<recording_process, procs, localProc, fileExists>>
tickVars == <<adc_value, actual_volume>>
volVars == <<adc_available, volume_monitoring, volume_thread, monitors, tickVars>>
topicVars == <<statusTopic, queryTopic>>

\* No message was delivered on the topic yet.
NoStatus == "<none>"
NoQuery == <<"<none>">>
\* The empty payload "".
EmptyQuery == <<>>
NoText == <<"<none>">>
NoRet == [fn |-> "none", line |-> 0, value |-> FALSE]
Return(fn, line, value) == [fn |-> fn, line |-> line, value |-> value]

\* Transcripts the whisper-cli run may print (after result.strip()).
Transcripts ==
    { <<"P","l","a","y"," ","h","i"," ","b","y"," ","A","C">>,
      <<"p","l","a","y"," ","b","y"," ","m","e",".">> }

\* Payloads that may arrive on MQTT_CONTROL_TOPIC.
Payloads ==
    { <<"b","u","t","t","o","n","_","p","r","e","s","s","e","d">>,
      <<" ","T","R","U","E","\n">>,
      <<"f","a","l","s","e">>,
      <<"R","e","c","o","r","d">>,
      <<"s","t","a","r","t"," ">>,
      <<"S","T","O","P">>,
      <<"t","r","a","n","s","c","r","i","b","e">>,
      <<"p","l","a","y">>,
      <<>> }

\* Popen.poll() is None
Alive(p) == p # 0 /\ procs[p] \in {"running", "terminating"}
\* `recording_process and recording_process.poll() is None`
Recording == Alive(recording_process)
LiveProcs == {p \in ProcIds : Alive(p)}

\* threading.Thread.is_alive()
MonitorAlive(m) == m # 0 /\ monitors[m] \in {"loop", "tick", "set"}
LiveMonitors == {m \in MonIds : MonitorAlive(m)}

\* The table slot of a process object nothing refers to any more is free.
Release(table, id) == IF id = 0 THEN table ELSE [table EXCEPT ![id] = "none"]
FreeSlot(table, ids) ==
    CHOOSE i \in ids : table[i] = "none" /\ \A j \in ids : table[j] = "none" => i <= j
HasFreeSlot(table, ids) == \E i \in ids : table[i] = "none"

\* Q was read at the prompt: lines 490-519 are running or have run.
ShutdownBegun == pc["main"] \in {"q_clear", "q_monitor", "q_join", "q_pkill", "done"}
Exited == pc["main"] = "done"

InitProgram ==
    /\ pc \in {[main |-> "prompt", mqtt |-> "idle"], [main |-> "prompt", mqtt |-> "failed"]}
    /\ recording_process = 0
    /\ procs = [p \in ProcIds |-> "none"]
    /\ localProc = 0
    /\ fileExists \in BOOLEAN
    /\ statusTopic = NoStatus
    /\ queryTopic = NoQuery
    /\ ret = [t \in Threads |-> NoRet]
    /\ transcript = [t \in Threads |-> NoText]
    /\ adc_available \in BOOLEAN
    /\ volume_monitoring = adc_available
    /\ volume_thread = IF adc_available THEN 1 ELSE 0
    /\ monitors = [m \in MonIds |-> IF adc_available /\ m = 1 THEN "loop" ELSE "none"]
    /\ dispatchedAfterQuit = FALSE

\* The values of the monitor loop are abstracted from in the specifications of
\* the threads: no tick has computed them.
Init ==
    /\ InitProgram
    /\ adc_value = 0
    /\ actual_volume = 0

\* ------------------------------------------------------------------------
\* Publishing
\* ------------------------------------------------------------------------
\* send_status_update(status): a failure to connect or publish is swallowed.
send_status_update(status) ==
    \E delivered \in BOOLEAN :
        statusTopic' = IF delivered THEN status ELSE statusTopic

\* mqtt_client.publish(MQTT_TOPIC, payload) inside a try block
publish_query(payload) ==
    \E delivered \in BOOLEAN :
        queryTopic' = IF delivered THEN payload ELSE queryTopic

\* send_to_nodered if line 138 published the transcript itself instead of
\* search_query
send_to_nodered_raw(t, text) ==
    \E delivered \in BOOLEAN :
        /\ queryTopic' = IF delivered THEN text ELSE queryTopic
        /\ ret' = [ret EXCEPT ![t] = IF delivered
                                     THEN Return("send_to_nodered", 141, TRUE)
                                     ELSE Return("send_to_nodered", 148, FALSE)]

\* send_to_nodered(transcript) on thread t: the parsed command is published and
\* True returned (line 141), or connect/publish raised and False is returned
\* (lines 142-148)
send_to_nodered(t, text) ==
    \E delivered \in BOOLEAN :
        /\ queryTopic' = IF delivered THEN parse_voice_command(text) ELSE queryTopic
        /\ ret' = [ret EXCEPT ![t] = IF delivered
                                     THEN Return("send_to_nodered", 141, TRUE)
                                     ELSE Return("send_to_nodered", 148, FALSE)]

\* ------------------------------------------------------------------------
\* Capture processes (arecord)
\* ------------------------------------------------------------------------
\* A capture process ends: on its own (device error, killed from outside) or
\* because it honours the SIGTERM of terminate().
ProcExit(p) ==
    /\ Alive(p)
    /\ procs' = [procs EXCEPT ![p] =
                    IF p = recording_process \/ p = localProc THEN "exited" ELSE "none"]
    /\ UNCHANGED <<pc, recording_process, localProc, fileExists, topicVars, ret,
                   transcript, volVars, dispatchedAfterQuit>>

\* ------------------------------------------------------------------------
\* start_recording (lines 165-193), run by the listener thread
\* ------------------------------------------------------------------------
\* line 169-171
start_recording_check(t) ==
    /\ pc[t] = "sr_check"
    /\ IF Recording
       THEN /\ pc' = [pc EXCEPT ![t] = "om_return"]
            /\ ret' = [ret EXCEPT ![t] = Return("start_recording", 171, FALSE)]
       ELSE /\ pc' = [pc EXCEPT ![t] = "sr_status"]
            /\ UNCHANGED ret
    /\ UNCHANGED <<recVars, topicVars, transcript, volVars, dispatchedAfterQuit>>

\* line 174
start_recording_status(t) ==
    /\ pc[t] = "sr_status"
    /\ send_status_update("Recording")
    /\ pc' = [pc EXCEPT ![t] = "sr_clear"]
    /\ UNCHANGED <<recVars, queryTopic, ret, transcript, volVars, dispatchedAfterQuit>>

\* lines 177-183
start_recording_clear(t) ==
    /\ pc[t] = "sr_clear"
    /\ publish_query(EmptyQuery)
    /\ pc' = [pc EXCEPT ![t] = "sr_popen"]
    /\ UNCHANGED <<recVars, statusTopic, ret, transcript, volVars, dispatchedAfterQuit>>

\* lines 185-189: Popen succeeded
start_recording_popen(t) ==
    /\ pc[t] = "sr_popen"
    /\ LET table == Release(procs, recording_process) IN
       /\ HasFreeSlot(table, ProcIds)
       /\ recording_process' = FreeSlot(table, ProcIds)
       /\ procs' = [table EXCEPT ![FreeSlot(table, ProcIds)] = "running"]
    /\ fileExists' = TRUE
    /\ pc' = [pc EXCEPT ![t] = "om_return"]
    /\ ret' = [ret EXCEPT ![t] = Return("start_recording", 189, TRUE)]
    /\ UNCHANGED <<localProc, topicVars, transcript, volVars, dispatchedAfterQuit>>

\* lines 185-191 if the handle were reset before the launch: Popen raised and
\* the previous handle is lost
start_recording_popen_failed_handle_lost(t) ==
    /\ pc[t] = "sr_popen"
    /\ recording_process' = 0
    /\ procs' = Release(procs, recording_process)
    /\ pc' = [pc EXCEPT ![t] = "sr_err"]
    /\ UNCHANGED <<localProc, fileExists, topicVars, ret, transcript, volVars,
                   dispatchedAfterQuit>>

\* lines 190-191: Popen raised
start_recording_popen_failed(t) ==
    /\ pc[t] = "sr_popen"
    /\ pc' = [pc EXCEPT ![t] = "sr_err"]
    /\ UNCHANGED <<recVars, topicVars, ret, transcript, volVars, dispatchedAfterQuit>>

\* lines 192-193
start_recording_error(t) ==
    /\ pc[t] = "sr_err"
    /\ send_status_update("error")
    /\ pc' = [pc EXCEPT ![t] = "om_return"]
    /\ ret' = [ret EXCEPT ![t] = Return("start_recording", 193, FALSE)]
    /\ UNCHANGED <<recVars, queryTopic, transcript, volVars, dispatchedAfterQuit>>

\* ------------------------------------------------------------------------
\* stop_recording_and_transcribe (lines 196-213), run by the listener thread
\* ------------------------------------------------------------------------
\* lines 200-202 without the poll(): `if not recording_process`
stop_recording_check_no_poll(t) ==
    /\ pc[t] = "st_check"
    /\ IF recording_process = 0
       THEN /\ pc' = [pc EXCEPT ![t] = "om_return"]
            /\ ret' = [ret EXCEPT ![t] = Return("stop_recording_and_transcribe", 202, FALSE)]
       ELSE /\ pc' = [pc EXCEPT ![t] = "st_terminate"]
            /\ UNCHANGED ret
    /\ UNCHANGED <<recVars, topicVars, transcript, volVars, dispatchedAfterQuit>>

\* lines 200-202
stop_recording_check(t) ==
    /\ pc[t] = "st_check"
    /\ IF ~Recording
       THEN /\ pc' = [pc EXCEPT ![t] = "om_return"]
            /\ ret' = [ret EXCEPT ![t] = Return("stop_recording_and_transcribe", 202, FALSE)]
       ELSE /\ pc' = [pc EXCEPT ![t] = "st_terminate"]
            /\ UNCHANGED ret
    /\ UNCHANGED <<recVars, topicVars, transcript, volVars, dispatchedAfterQuit>>

\* line 206: terminate() sends SIGTERM; it does nothing to a process that has ended
stop_recording_terminate(t) ==
    /\ pc[t] = "st_terminate"
    /\ procs' = IF Recording
                THEN [procs EXCEPT ![recording_process] = "terminating"]
                ELSE procs
    /\ pc' = [pc EXCEPT ![t] = "st_wait"]
    /\ UNCHANGED <<recording_process, localProc, fileExists, topicVars, ret,
                   transcript, volVars, dispatchedAfterQuit>>

\* lines 207-212 if line 208 came after line 212: wait() returns and
\* transcribe_audio is entered with the handle still set
stop_recording_wait_keeps_handle(t) ==
    /\ pc[t] = "st_wait"
    /\ ~Recording
    /\ pc' = [pc EXCEPT ![t] = "ta_exists"]
    /\ UNCHANGED <<recVars, topicVars, ret, transcript, volVars, dispatchedAfterQuit>>

\* lines 207-208: wait() returns once the process has ended; then the handle is cleared
stop_recording_wait(t) ==
    /\ pc[t] = "st_wait"
    /\ ~Recording
    /\ procs' = Release(procs, recording_process)
    /\ recording_process' = 0
    /\ pc' = [pc EXCEPT ![t] = "ta_exists"]
    /\ UNCHANGED <<localProc, fileExists, topicVars, ret, transcript, volVars,
                   dispatchedAfterQuit>>

\* line 213, after transcribe_audio() returned
stop_recording_return(t) ==
    /\ pc[t] = "st_return"
    /\ pc' = [pc EXCEPT ![t] = "om_return"]
    /\ ret' = [ret EXCEPT ![t] = Return("stop_recording_and_transcribe", 213, TRUE)]
    /\ UNCHANGED <<recVars, topicVars, transcript, volVars, dispatchedAfterQuit>>

\* ------------------------------------------------------------------------
\* transcribe_audio (lines 216-254), called by stop_recording_and_transcribe
\* on the listener thread and by the T command on the main thread
\* ------------------------------------------------------------------------
\* Where transcribe_audio returns to: line 213 or line 468.
ReturnPc(t) == IF t = "mqtt" THEN "st_return" ELSE "t_return"

\* line 218
transcribe_audio_exists(t) ==
    /\ pc[t] = "ta_exists"
    /\ pc' = [pc EXCEPT ![t] = IF fileExists THEN "ta_processing" ELSE "ta_nofile"]
    /\ UNCHANGED <<recVars, topicVars, ret, transcript, volVars, dispatchedAfterQuit>>

\* lines 219-221
transcribe_audio_nofile(t) ==
    /\ pc[t] = "ta_nofile"
    /\ send_status_update("error")
    /\ pc' = [pc EXCEPT ![t] = ReturnPc(t)]
    /\ ret' = [ret EXCEPT ![t] = Return("transcribe_audio", 221, FALSE)]
    /\ UNCHANGED <<recVars, queryTopic, transcript, volVars, dispatchedAfterQuit>>

\* line 224
transcribe_audio_processing(t) ==
    /\ pc[t] = "ta_processing"
    /\ send_status_update("Processing Request")
    /\ pc' = [pc EXCEPT ![t] = "ta_whisper"]
    /\ UNCHANGED <<recVars, queryTopic, ret, transcript, volVars, dispatchedAfterQuit>>

\* lines 230-237: whisper-cli printed a transcript
transcribe_audio_whisper(t) ==
    /\ pc[t] = "ta_whisper"
    /\ \E text \in Transcripts : transcript' = [transcript EXCEPT ![t] = text]
    /\ pc' = [pc EXCEPT ![t] = "ta_send"]
    /\ UNCHANGED <<recVars, topicVars, ret, volVars, dispatchedAfterQuit>>

\* lines 230-235, 249: check_output raised
transcribe_audio_whisper_failed(t) ==
    /\ pc[t] = "ta_whisper"
    /\ pc' = [pc EXCEPT ![t] = "ta_err"]
    /\ UNCHANGED <<recVars, topicVars, ret, transcript, volVars, dispatchedAfterQuit>>

\* line 245
transcribe_audio_send(t) ==
    /\ pc[t] = "ta_send"
    /\ send_to_nodered(t, transcript[t])
    /\ transcript' = [transcript EXCEPT ![t] = NoText]
    /\ pc' = [pc EXCEPT ![t] = "ta_clear"]
    /\ UNCHANGED <<recVars, statusTopic, volVars, dispatchedAfterQuit>>

\* lines 246-247: the value send_to_nodered returned is not looked at
transcribe_audio_clear(t) ==
    /\ pc[t] = "ta_clear"
    /\ send_status_update("")
    /\ pc' = [pc EXCEPT ![t] = ReturnPc(t)]
    /\ ret' = [ret EXCEPT ![t] = Return("transcribe_audio", 247, TRUE)]
    /\ UNCHANGED <<recVars, queryTopic, transcript, volVars, dispatchedAfterQuit>>

\* lines 249-254
transcribe_audio_error(t) ==
    /\ pc[t] = "ta_err"
    /\ send_status_update("error")
    /\ pc' = [pc EXCEPT ![t] = ReturnPc(t)]
    /\ ret' = [ret EXCEPT ![t] = Return("transcribe_audio", 254, FALSE)]
    /\ UNCHANGED <<recVars, queryTopic, transcript, volVars, dispatchedAfterQuit>>

\* ------------------------------------------------------------------------
\* on_mqtt_message (lines 267-294)
\* ------------------------------------------------------------------------
Cmd_button_pressed == <<"b","u","t","t","o","n","_","p","r","e","s","s","e","d">>
Cmd_true == <<"t","r","u","e">>
Cmd_false == <<"f","a","l","s","e">>
Cmd_record == <<"r","e","c","o","r","d">>
Cmd_start == <<"s","t","a","r","t">>
Cmd_stop == <<"s","t","o","p">>
Cmd_transcribe == <<"t","r","a","n","s","c","r","i","b","e">>

\* line 271
decode_command(payload) == lower(strip(payload, Whitespace))

\* lines 275-294 if line 271 compared the payload as it arrived, without
\* strip().lower()
on_mqtt_message_branch_exact(payload) ==
    IF payload = Cmd_button_pressed THEN "bp_check"
    ELSE IF payload = Cmd_true THEN "sr_check"
    ELSE IF payload = Cmd_false THEN "st_check"
    ELSE IF payload = Cmd_record \/ payload = Cmd_start THEN "sr_check"
    ELSE IF payload = Cmd_stop \/ payload = Cmd_transcribe THEN "st_check"
    ELSE "om_return"

\* lines 271-294: the branch taken for a payload; an unknown command is only
\* printed and the callback returns
on_mqtt_message_branch(payload) ==
    LET command == decode_command(payload) IN
    IF command = Cmd_button_pressed THEN "bp_check"
    ELSE IF command = Cmd_true THEN "sr_check"
    ELSE IF command = Cmd_false THEN "st_check"
    ELSE IF command = Cmd_record \/ command = Cmd_start THEN "sr_check"
    ELSE IF command = Cmd_stop \/ command = Cmd_transcribe THEN "st_check"
    ELSE "om_return"

\* on_mqtt_message if the client dispatched a message while the callback of
\* the previous one was still running (a callback per message instead of the
\* single loop_forever thread of line 307)
on_mqtt_message_reentrant(payload) ==
    /\ pc["mqtt"] \notin {"failed", "killed"}
    /\ pc' = [pc EXCEPT !["mqtt"] = on_mqtt_message_branch(payload)]
    /\ dispatchedAfterQuit' = (ShutdownBegun /\ on_mqtt_message_branch(payload) # "om_return")
    /\ UNCHANGED <<recVars, topicVars, ret, transcript, volVars>>

\* loop_forever delivers the next message to on_mqtt_message
on_mqtt_message(payload) ==
    /\ pc["mqtt"] = "idle"
    /\ pc' = [pc EXCEPT !["mqtt"] = on_mqtt_message_branch(payload)]
    /\ dispatchedAfterQuit' = (ShutdownBegun /\ on_mqtt_message_branch(payload) # "om_return")
    /\ UNCHANGED <<recVars, topicVars, ret, transcript, volVars>>

\* on_mqtt_message returns to loop_forever; the callee's return value is dropped
on_mqtt_message_return ==
    /\ pc["mqtt"] = "om_return"
    /\ pc' = [pc EXCEPT !["mqtt"] = "idle"]
    /\ ret' = [ret EXCEPT !["mqtt"] = NoRet]
    /\ dispatchedAfterQuit' = FALSE
    /\ UNCHANGED <<recVars, topicVars, transcript, volVars>>

\* lines 275-282: button_pressed toggles on the current recording state
on_mqtt_message_toggle ==
    /\ pc["mqtt"] = "bp_check"
    /\ pc' = [pc EXCEPT !["mqtt"] = IF Recording THEN "st_check" ELSE "sr_check"]
    /\ UNCHANGED <<recVars, topicVars, ret, transcript, volVars, dispatchedAfterQuit>>

\* ------------------------------------------------------------------------
\* volume_monitor_thread (lines 330-352)
\* ------------------------------------------------------------------------
\* The thread m has finished.
MonitorExit(m) == [monitors EXCEPT ![m] = "none"]

\* line 335: `while volume_monitoring`
volume_monitor_check(m) ==
    /\ monitors[m] = "loop"
    /\ monitors' = IF volume_monitoring
                   THEN [monitors EXCEPT ![m] = "tick"]
                   ELSE MonitorExit(m)
    /\ UNCHANGED <<pc, recVars, topicVars, ret, transcript, adc_available, tickVars,
                   volume_monitoring, volume_thread, dispatchedAfterQuit>>

\* lines 338-344: adc.value was read and the two volumes computed
volume_monitor_tick(m) ==
    /\ monitors[m] = "tick"
    /\ monitors' = [monitors EXCEPT ![m] = "set"]
    /\ UNCHANGED <<pc, recVars, topicVars, ret, transcript, adc_available, tickVars,
                   volume_monitoring, volume_thread, dispatchedAfterQuit>>

\* lines 338, 350-352: reading adc.value raised; the loop is left
volume_monitor_error(m) ==
    /\ monitors[m] = "tick"
    /\ monitors' = MonitorExit(m)
    /\ UNCHANGED <<pc, recVars, topicVars, ret, transcript, adc_available, tickVars,
                   volume_monitoring, volume_thread, dispatchedAfterQuit>>

\* lines 347-349 with 320-327: set_volume returned, True or False (amixer
\* ended with a non-zero status: CalledProcessError is caught); then the sleep
volume_monitor_set_volume(m) ==
    /\ monitors[m] = "set"
    /\ monitors' = [monitors EXCEPT ![m] = "loop"]
    /\ UNCHANGED <<pc, recVars, topicVars, ret, transcript, adc_available, tickVars,
                   volume_monitoring, volume_thread, dispatchedAfterQuit>>

\* lines 323-326, 350-352: subprocess.run raised something set_volume does not
\* catch (FileNotFoundError when amixer is not installed, any other OSError);
\* the exception reaches the loop's except clause and the loop is left
volume_monitor_set_volume_raised(m) ==
    /\ monitors[m] = "set"
    /\ monitors' = MonitorExit(m)
    /\ UNCHANGED <<pc, recVars, topicVars, ret, transcript, adc_available, tickVars,
                   volume_monitoring, volume_thread, dispatchedAfterQuit>>

\* line 344: int(adc_value * 91) + 9 for the sample adc_value = sample / AdcScale;
\* int() truncates, and the product is not negative
actual_volume_of(sample) == ((sample * 91) \div AdcScale) + 9

\* lines 338-344 with their values: the sample read from the ADC is adc_value
\* and actual_volume is computed from it for the set_volume call of line 347
volume_monitor_tick_values(m) ==
    /\ monitors[m] = "tick"
    /\ monitors' = [monitors EXCEPT ![m] = "set"]
    /\ actual_volume' = actual_volume_of(adc_value)
    /\ UNCHANGED <<pc, recVars, topicVars, ret, transcript, adc_available, adc_value,
                   volume_monitoring, volume_thread, dispatchedAfterQuit>>

\* volume_thread.join(timeout=1.0) returns: the thread has finished, or the
\* second has passed while the thread is held up in set_volume (amixer is run
\* with no timeout, then the thread sleeps)
join_returns(m) ==
    \/ ~MonitorAlive(m)
    \/ monitors[m] = "set"

\* ------------------------------------------------------------------------
\* Main loop (lines 445-523)
\* ------------------------------------------------------------------------
\* Lines typed at the prompt.
Inputs ==
    { <<"R">>, <<"p"," ">>, <<"t">>, <<" ","V">>, <<"Q">>, <<"x">>, <<>> }

\* lines 446-523: the branch taken for an input line
main_branch(line) ==
    LET choice == lower(strip(line, Whitespace)) IN
    IF choice = <<"r">> THEN "r_start"
    ELSE IF choice = <<"p">> THEN "p_run"
    ELSE IF choice = <<"t">> THEN "ta_exists"
    ELSE IF choice = <<"v">> THEN "v_toggle"
    ELSE IF choice = <<"q">> THEN "q_clear"
    ELSE "prompt"

\* line 446
main_read_command(line) ==
    /\ pc["main"] = "prompt"
    /\ pc' = [pc EXCEPT !["main"] = main_branch(line)]
    /\ UNCHANGED <<recVars, topicVars, ret, transcript, volVars, dispatchedAfterQuit>>

\* line 468: transcribe_audio() returned; its value is dropped
main_transcribe_return ==
    /\ pc["main"] = "t_return"
    /\ pc' = [pc EXCEPT !["main"] = "prompt"]
    /\ ret' = [ret EXCEPT !["main"] = NoRet]
    /\ UNCHANGED <<recVars, topicVars, transcript, volVars, dispatchedAfterQuit>>

\* line 454: subprocess.run(RECORD_CMD) starts arecord
main_record_start ==
    /\ pc["main"] = "r_start"
    /\ HasFreeSlot(procs, ProcIds)
    /\ localProc' = FreeSlot(procs, ProcIds)
    /\ procs' = [procs EXCEPT ![FreeSlot(procs, ProcIds)] = "running"]
    /\ fileExists' = TRUE
    /\ pc' = [pc EXCEPT !["main"] = "r_run"]
    /\ UNCHANGED <<recording_process, topicVars, ret, transcript, volVars,
                   dispatchedAfterQuit>>

\* line 454, 458: subprocess.run returns when arecord has ended
main_record_return ==
    /\ pc["main"] = "r_run"
    /\ procs[localProc] = "exited"
    /\ procs' = Release(procs, localProc)
    /\ localProc' = 0
    /\ pc' = [pc EXCEPT !["main"] = "prompt"]
    /\ UNCHANGED <<recording_process, fileExists, topicVars, ret, transcript, volVars,
                   dispatchedAfterQuit>>

\* lines 455-458: CTRL+C; subprocess.run kills arecord before it re-raises
main_record_interrupt ==
    /\ pc["main"] = "r_run"
    /\ Alive(localProc)
    /\ procs' = Release(procs, localProc)
    /\ localProc' = 0
    /\ pc' = [pc EXCEPT !["main"] = "prompt"]
    /\ UNCHANGED <<recording_process, fileExists, topicVars, ret, transcript, volVars,
                   dispatchedAfterQuit>>

\* lines 461-464
main_play ==
    /\ pc["main"] = "p_run"
    /\ pc' = [pc EXCEPT !["main"] = "prompt"]
    /\ UNCHANGED <<recVars, topicVars, ret, transcript, volVars, dispatchedAfterQuit>>

\* lines 472-474
main_volume_unavailable ==
    /\ pc["main"] = "v_toggle"
    /\ ~adc_available
    /\ pc' = [pc EXCEPT !["main"] = "prompt"]
    /\ UNCHANGED <<recVars, topicVars, ret, transcript, volVars, dispatchedAfterQuit>>

\* lines 476-481: the flag is set and a new thread started; a previous thread
\* is neither cancelled nor joined here (a start waits for a free thread slot
\* when MaxMonitors threads are alive)
main_volume_start ==
    /\ pc["main"] = "v_toggle"
    /\ adc_available
    /\ ~volume_monitoring
    /\ HasFreeSlot(monitors, MonIds)
    /\ volume_thread' = FreeSlot(monitors, MonIds)
    /\ monitors' = [monitors EXCEPT ![FreeSlot(monitors, MonIds)] = "loop"]
    /\ volume_monitoring' = TRUE
    /\ pc' = [pc EXCEPT !["main"] = "prompt"]
    /\ UNCHANGED <<recVars, topicVars, ret, transcript, adc_available, tickVars,
                   dispatchedAfterQuit>>

\* lines 482-487 if the stop path also dropped the recording handle
main_volume_stop_drops_recording ==
    /\ pc["main"] = "v_toggle"
    /\ adc_available
    /\ volume_monitoring
    /\ volume_monitoring' = FALSE
    /\ recording_process' = 0
    /\ pc' = [pc EXCEPT !["main"] = IF volume_thread # 0 THEN "v_join" ELSE "prompt"]
    /\ UNCHANGED <<procs, localProc, fileExists, topicVars, ret, transcript,
                   adc_available, tickVars, volume_thread, monitors, dispatchedAfterQuit>>

\* lines 482-484
main_volume_stop ==
    /\ pc["main"] = "v_toggle"
    /\ adc_available
    /\ volume_monitoring
    /\ volume_monitoring' = FALSE
    /\ pc' = [pc EXCEPT !["main"] = IF volume_thread # 0 THEN "v_join" ELSE "prompt"]
    /\ UNCHANGED <<recVars, topicVars, ret, transcript, adc_available, tickVars, volume_thread,
                   monitors, dispatchedAfterQuit>>

\* lines 485-487
main_volume_join ==
    /\ pc["main"] = "v_join"
    /\ join_returns(volume_thread)
    /\ pc' = [pc EXCEPT !["main"] = "prompt"]
    /\ UNCHANGED <<recVars, topicVars, ret, transcript, volVars, dispatchedAfterQuit>>

\* lines 494-502: one connection publishes both clears; a failure is swallowed
main_quit_clear ==
    /\ pc["main"] = "q_clear"
    /\ \E delivered \in BOOLEAN :
          /\ statusTopic' = IF delivered THEN "" ELSE statusTopic
          /\ queryTopic' = IF delivered THEN EmptyQuery ELSE queryTopic
    /\ pc' = [pc EXCEPT !["main"] = "q_monitor"]
    /\ UNCHANGED <<recVars, ret, transcript, volVars, dispatchedAfterQuit>>

\* lines 505-506
main_quit_monitor ==
    /\ pc["main"] = "q_monitor"
    /\ volume_monitoring' = FALSE
    /\ pc' = [pc EXCEPT !["main"] =
                 IF volume_monitoring /\ volume_thread # 0 THEN "q_join" ELSE "q_pkill"]
    /\ UNCHANGED <<recVars, topicVars, ret, transcript, adc_available, tickVars, volume_thread,
                   monitors, dispatchedAfterQuit>>

\* lines 507-509
main_quit_join ==
    /\ pc["main"] = "q_join"
    /\ join_returns(volume_thread)
    /\ pc' = [pc EXCEPT !["main"] = "q_pkill"]
    /\ UNCHANGED <<recVars, topicVars, ret, transcript, volVars, dispatchedAfterQuit>>

\* lines 512-519: pkill spotifyd, break; the interpreter exits and takes its
\* daemon threads (the listener, the monitors) with it, but not its child processes
main_quit_exit ==
    /\ pc["main"] = "q_pkill"
    /\ pc' = [main |-> "done",
              mqtt |-> IF pc["mqtt"] = "failed" THEN "failed" ELSE "killed"]
    /\ monitors' = [m \in MonIds |-> "none"]
    /\ UNCHANGED <<recVars, topicVars, ret, transcript, adc_available, tickVars,
                   volume_monitoring, volume_thread, dispatchedAfterQuit>>

\* ------------------------------------------------------------------------
\* Specification
\* ------------------------------------------------------------------------
\* The steps the listener thread takes on its own once a message is dispatched.
MqttRun ==
    \/ on_mqtt_message_toggle
    \/ start_recording_check("mqtt")
    \/ start_recording_status("mqtt")
    \/ start_recording_clear("mqtt")
    \/ start_recording_popen("mqtt")
    \/ start_recording_popen_failed("mqtt")
    \/ start_recording_error("mqtt")
    \/ stop_recording_check("mqtt")
    \/ stop_recording_terminate("mqtt")
    \/ stop_recording_wait("mqtt")
    \/ stop_recording_return("mqtt")
    \/ on_mqtt_message_return

\* transcribe_audio on thread t
Transcribe(t) ==
    \/ transcribe_audio_exists(t)
    \/ transcribe_audio_nofile(t)
    \/ transcribe_audio_processing(t)
    \/ transcribe_audio_whisper(t)
    \/ transcribe_audio_whisper_failed(t)
    \/ transcribe_audio_send(t)
    \/ transcribe_audio_clear(t)
    \/ transcribe_audio_error(t)

\* The steps the main loop takes on its own once a command is read, the volume
\* control apart.
MainRun ==
    \/ main_record_start
    \/ main_record_return
    \/ main_play
    \/ main_transcribe_return
    \/ main_quit_clear
    \/ main_quit_monitor
    \/ main_quit_exit

\* The main loop's steps that need the ADC (adc_available).
MainVolumeRun ==
    \/ main_volume_start
    \/ main_volume_stop
    \/ main_volume_join
    \/ main_quit_join

MonitorRun(m) ==
    \/ volume_monitor_check(m)
    \/ volume_monitor_tick(m)
    \/ volume_monitor_error(m)
    \/ volume_monitor_set_volume(m)
    \/ volume_monitor_set_volume_raised(m)

\* The command loop, transcription and the capture processes.
CoreNext ==
    \/ \E line \in Inputs : main_read_command(line)
    \/ main_record_interrupt
    \/ MainRun
    \/ \E t \in Threads : Transcribe(t)
    \/ \E p \in ProcIds : ProcExit(p)

\* The MQTT control listener.
ListenerNext ==
    \/ \E payload \in Payloads : on_mqtt_message(payload)
    \/ MqttRun

\* The volume control, with the ADC present.
VolumeNext ==
    \/ MainVolumeRun
    \/ \E m \in MonIds : MonitorRun(m)

Next ==
    \/ CoreNext
    \/ ListenerNext
    \/ VolumeNext
    \/ main_volume_unavailable

Spec == Init /\ [][Next]_vars

\* The program on a machine where MCP3008() raised (lines 358-363): no monitor
\* thread is ever started and V only reports the missing ADC.
InitNoAdc == Init /\ ~adc_available
NextNoAdc ==
    \/ CoreNext
    \/ ListenerNext
    \/ main_volume_unavailable

SpecNoAdc == InitNoAdc /\ [][NextNoAdc]_vars

\* The program with the ADC present and the listener connected, used by an
\* operator who types only V: recordings are started and stopped by the remote
\* control while the volume control is switched off and on at the prompt. (The
\* listener transcribes only what it has recorded, so the audio file exists.)
VolumeInputs == { <<" ","V">>, <<"v">>, <<"x">> }
InitRemote == Init /\ adc_available /\ pc["mqtt"] = "idle"
NextRemote ==
    \/ \E line \in VolumeInputs : main_read_command(line)
    \/ transcribe_audio_exists("mqtt")
    \/ transcribe_audio_processing("mqtt")
    \/ transcribe_audio_whisper("mqtt")
    \/ transcribe_audio_whisper_failed("mqtt")
    \/ transcribe_audio_send("mqtt")
    \/ transcribe_audio_clear("mqtt")
    \/ transcribe_audio_error("mqtt")
    \/ \E p \in ProcIds : ProcExit(p)
    \/ ListenerNext
    \/ main_volume_start
    \/ main_volume_stop
    \/ main_volume_join
    \/ \E m \in MonIds : MonitorRun(m)

SpecRemote == InitRemote /\ [][NextRemote]_vars

\* The volume mapping of the monitor loop: the potentiometer stands at any of
\* the samples 0/AdcScale .. AdcScale/AdcScale and the auto-started monitor
\* thread runs its ticks; the listener failed to connect and nothing is typed.
InitVolumeMapping ==
    /\ InitProgram
    /\ adc_available
    /\ pc["mqtt"] = "failed"
    /\ adc_value \in 0..AdcScale
    /\ actual_volume = 0
NextVolumeMapping ==
    \E m \in MonIds :
        \/ volume_monitor_check(m)
        \/ volume_monitor_tick_values(m)
        \/ volume_monitor_set_volume(m)

SpecVolumeMapping == InitVolumeMapping /\ [][NextVolumeMapping]_vars

\* The transcripts given to parse_voice_command: whisper-cli may print any
\* text. A transcript is a verb or none, a song or none, a delimiter or none
\* and an artist or none, in mixed case and with stray punctuation and blanks.
TranscriptVerbs ==
    { <<>>,
      <<"P","l","a","y"," ">>,
      <<"p","l","a","y",","," ">>,
      <<" ","P","L","A","Y"," ">>,
      <<"p","l","a","y">> }
TranscriptSongs ==
    { <<>>,
      <<"a">>,
      <<"h","i"," ","t","h","e","r","e">>,
      <<"d","o","n","'","t"," "," ","S","T","O","P">> }
TranscriptDelimiters ==
    { <<>>,
      <<" ","b","y"," ">>,
      <<" ","B","Y"," ">>,
      <<"b","y">> }
TranscriptArtists ==
    { <<>>,
      <<"A","C","/","D","C">>,
      <<"m","e",".","\n">>,
      <<".">> }
TranscriptExamples ==
    { <<"P","l","a","y"," ","T","h","u","n","d","e","r","s","t","r","u","c",
        "k"," ","b","y"," ","A","C","/","D","C">>,
      <<"p","l","a","y",","," ","d","o","n","'","t"," ","s","t","o","p"," ",
        "b","e","l","i","e","v","i","n","'"," ","b","y"," ","j","o",
        "u","r","n","e","y">>,
      <<"h","e","l","l","o"," ","w","o","r","l","d">>,
      <<>> }
TranscriptInputs ==
    { verb \o song \o delimiter \o artist :
          verb \in TranscriptVerbs, song \in TranscriptSongs,
          delimiter \in TranscriptDelimiters, artist \in TranscriptArtists }
        \cup TranscriptExamples

\* T was typed with a recording on disk and whisper-cli has printed its text
\* (lines 216-241) on a machine without ADC whose listener failed to connect;
\* the text is parsed and published, the status cleared, and the prompt is back.
InitNormalizer ==
    /\ pc = [main |-> "ta_send", mqtt |-> "failed"]
    /\ recording_process = 0
    /\ procs = [p \in ProcIds |-> "none"]
    /\ localProc = 0
    /\ fileExists = TRUE
    /\ statusTopic \in {NoStatus, "Processing Request"}
    /\ queryTopic = NoQuery
    /\ ret = [t \in Threads |-> NoRet]
    /\ transcript \in {[main |-> text, mqtt |-> NoText] : text \in TranscriptInputs}
    /\ adc_available = FALSE
    /\ volume_monitoring = FALSE
    /\ volume_thread = 0
    /\ monitors = [m \in MonIds |-> "none"]
    /\ dispatchedAfterQuit = FALSE
    /\ adc_value = 0
    /\ actual_volume = 0
NextNormalizer ==
    \/ transcribe_audio_send("main")
    \/ transcribe_audio_clear("main")
    \/ main_transcribe_return

SpecNormalizer == InitNormalizer /\ [][NextNormalizer]_vars

\* Threads that can take a step are scheduled: the listener, the main loop between
\* two prompts, a transcription under way. Nothing makes a command or a message
\* arrive, or a capture process end.
FairSpecNoAdc ==
    /\ SpecNoAdc
    /\ WF_vars(MqttRun)
    /\ WF_vars(MainRun \/ main_volume_unavailable)
    /\ \A t \in Threads : WF_vars(Transcribe(t))

\* ------------------------------------------------------------------------
\* Properties
\* ------------------------------------------------------------------------
\* The listener thread took a step of its own (it was not killed by the exit).
MqttStepped == pc'["mqtt"] \notin {pc["mqtt"], "killed"}

\* C1: in every reachable state at most one capture process is running, and
\* every running capture process is the one recording_process refers to.
C1_OneCaptureProcess ==
    /\ Cardinality(LiveProcs) <= 1
    /\ \A p \in LiveProcs : p = recording_process

\* C2: Record requests issued while a capture is live start no further process
\* (a capture process is started only when none is live), and every
\* transcription started by stop_recording_and_transcribe consumes the handle
\* of the one recording it stopped.
C2_OneStartOneTranscription ==
    [][ /\ \A p \in ProcIds : (~Alive(p) /\ Alive(p)') => LiveProcs = {}
        /\ (pc["mqtt"] # "ta_exists" /\ pc'["mqtt"] = "ta_exists")
              => (recording_process # 0 /\ recording_process' = 0) ]_vars

\* C3: start_recording called while recording_process is set and alive returns
\* at line 171 (AlreadyRecording), leaves the handle and the processes as they
\* are, publishes nothing, and exactly one capture process is live afterwards.
C3_RecordWhileRecording ==
    [][ (pc["mqtt"] = "sr_check" /\ Recording /\ MqttStepped)
           => /\ pc'["mqtt"] = "om_return"
              /\ ret'["mqtt"] = Return("start_recording", 171, FALSE)
              /\ UNCHANGED <<recording_process, procs, statusTopic, queryTopic>>
              /\ Cardinality(LiveProcs)' = 1 ]_vars

\* C4: stop_recording_and_transcribe called with no live recording (handle None,
\* or its process already ended) returns at line 202 (NoActiveRecording), does
\* not enter transcribe_audio, publishes nothing and changes no session state.
C4_StopWithoutRecording ==
    [][ (pc["mqtt"] = "st_check" /\ ~Recording /\ MqttStepped)
           => /\ pc'["mqtt"] = "om_return"
              /\ ret'["mqtt"] = Return("stop_recording_and_transcribe", 202, FALSE)
              /\ UNCHANGED <<recVars, topicVars, transcript, volVars>> ]_vars

\* C4 witness: the call returned NoActiveRecording with a handle whose process
\* had ended, after an earlier message was published on the status topic.
C4_Witness ==
    /\ pc["mqtt"] = "om_return"
    /\ ret["mqtt"] = Return("stop_recording_and_transcribe", 202, FALSE)
    /\ recording_process # 0
    /\ procs[recording_process] = "exited"
    /\ statusTopic = "Recording"

\* C5: when the Q command has run to its end, recording_process is None, no
\* capture process is running, volume_monitoring is False and no monitor
\* thread is running.
C5_ShutdownLeavesNothingRunning ==
    Exited => /\ recording_process = 0
              /\ LiveProcs = {}
              /\ ~volume_monitoring
              /\ LiveMonitors = {}

\* C6: once the Q command has published its clears, nothing is published on the
\* status topic or the query topic any more, so the empty string stays the last
\* message of both.
C6_NothingPublishedAfterClear ==
    [][ pc["main"] \in {"q_monitor", "q_join", "q_pkill", "done"}
           => UNCHANGED <<statusTopic, queryTopic>> ]_vars

\* C7: a control message that arrives after Q was read is a no-op: handling it
\* starts no capture process, changes no handle, publishes nothing and runs no
\* transcription.
C7_RequestsAfterShutdownAreNoops ==
    [][ (dispatchedAfterQuit /\ MqttStepped)
           => /\ UNCHANGED <<recording_process, procs, statusTopic, queryTopic>>
              /\ pc'["mqtt"] \notin {"ta_exists", "ta_processing", "ta_whisper"} ]_vars

\* C8: at most one volume monitor thread is alive at any time.
C8_AtMostOneMonitor == Cardinality(LiveMonitors) <= 1

\* C9: while the main loop is neither in a V command nor in the Q command,
\* volume_monitoring is True exactly if a monitor loop is running.
C9_FlagMatchesLoop ==
    pc["main"] \notin {"v_toggle", "v_join", "q_clear", "q_monitor", "q_join", "q_pkill", "done"}
        => (volume_monitoring <=> LiveMonitors # {})

\* C10: a stop_recording_and_transcribe call that waits for the capture process
\* eventually stops waiting, whether or not the process ever ends.
C10_StopWaitEnds == (pc["mqtt"] = "st_wait") ~> (pc["mqtt"] # "st_wait")

\* C11: when the stop path of the V command or of the Q command is left
\* (the join of lines 486 / 508 has returned), the monitor thread it stopped,
\* volume_thread, has ended.
C11_StopJoinsMonitor ==
    [][ (pc["main"] \in {"v_join", "q_join"} /\ pc'["main"] \notin {"v_join", "q_join"})
           => ~MonitorAlive(volume_thread)' ]_vars

\* C12: when whisper-cli fails inside stop_recording_and_transcribe, "error" is
\* sent on the status topic, nothing is published on the query topic, the
\* transcription is not run again, and stop_recording_and_transcribe returns a
\* failed result (False) to its caller.
C12_TranscriptionFailureReported ==
    [][ /\ (pc["mqtt"] = "ta_whisper" /\ pc'["mqtt"] = "ta_err")
              => UNCHANGED <<statusTopic, queryTopic>>
        /\ (pc["mqtt"] = "ta_err" /\ MqttStepped)
              => /\ statusTopic' \in {"error", statusTopic}
                 /\ UNCHANGED queryTopic
                 /\ pc'["mqtt"] = "st_return"
        /\ (pc["mqtt"] = "st_return" /\ MqttStepped
               /\ ret["mqtt"] = Return("transcribe_audio", 254, FALSE))
              => /\ ret'["mqtt"].fn = "stop_recording_and_transcribe"
                 /\ ret'["mqtt"].value = FALSE
                 /\ UNCHANGED <<statusTopic, queryTopic>> ]_vars

\* C13: when publishing the search query fails after a successful
\* transcription (send_to_nodered returned False), the failure is reported on
\* the status topic ("error") and to the caller (transcribe_audio returns
\* False), the publish is not tried again and the query topic is left alone.
C13_PublishFailureReported ==
    [][ \A t \in Threads :
          (pc[t] = "ta_clear" /\ pc'[t] # "ta_clear" /\ pc'[t] # "killed"
              /\ ret[t] = Return("send_to_nodered", 148, FALSE))
             => /\ statusTopic' \in {"error", statusTopic}
                /\ ret'[t] = Return("transcribe_audio", ret'[t].line, FALSE)
                /\ pc'[t] = ReturnPc(t)
                /\ UNCHANGED queryTopic ]_vars

\* C14: when Popen raises in start_recording, the handle keeps the value it had
\* when the call began, "error" is the last status the call sends, the call
\* returns False (line 193) and goes back to the listener loop without
\* launching again.
C14_LaunchFailureReported ==
    [][ /\ (pc["mqtt"] \in {"sr_check", "sr_status", "sr_clear", "sr_popen", "sr_err"}
               /\ recording_process' # recording_process)
              => ret'["mqtt"] = Return("start_recording", 189, TRUE)
        /\ (pc["mqtt"] = "sr_popen" /\ pc'["mqtt"] = "sr_err")
              => UNCHANGED <<recording_process, procs, statusTopic, queryTopic>>
        /\ (pc["mqtt"] = "sr_err" /\ MqttStepped)
              => /\ pc'["mqtt"] = "om_return"
                 /\ ret'["mqtt"] = Return("start_recording", 193, FALSE)
                 /\ statusTopic' \in {"error", statusTopic}
                 /\ UNCHANGED <<recording_process, procs, queryTopic>>
        /\ (pc["mqtt"] = "om_return" /\ MqttStepped
               /\ ret["mqtt"] = Return("start_recording", 193, FALSE))
              => /\ pc'["mqtt"] = "idle"
                 /\ UNCHANGED <<recording_process, procs, statusTopic, queryTopic>> ]_vars

\* C14 witness: a launch failed while the handle still referred to an earlier,
\* ended capture; the call returned False with "error" on the status topic and
\* the handle as it was.
C14_Witness ==
    /\ pc["mqtt"] = "om_return"
    /\ ret["mqtt"] = Return("start_recording", 193, FALSE)
    /\ statusTopic = "error"
    /\ recording_process # 0
    /\ procs[recording_process] = "exited"

\* C15: a tick whose set_volume call fails, in whatever way, is followed by the
\* next pass of the loop: the monitor thread goes from the set_volume call back
\* to the loop test, and the loop test ends the thread only once
\* volume_monitoring has been set to False.
C15_FailedTickKeepsLoop ==
    [][ \A m \in MonIds :
          /\ (monitors[m] = "set" /\ monitors'[m] # "set" /\ pc'["main"] # "done")
                => monitors'[m] = "loop"
          /\ (monitors[m] = "loop" /\ ~MonitorAlive(m)' /\ pc'["main"] # "done")
                => ~volume_monitoring ]_vars

\* C16: for every control payload, trimmed and lower-cased: button_pressed
\* calls stop_recording_and_transcribe if a recording is live and
\* start_recording otherwise; true, start and record call start_recording;
\* false, stop and transcribe call stop_recording_and_transcribe; for any other
\* payload the callback returns at once, having changed no state, started or
\* stopped no process and published nothing.
C16_Trimmed(payload) == lower(strip(payload, Whitespace))

C16_PayloadDispatch ==
    [][ /\ \A payload \in Payloads :
              on_mqtt_message(payload) =>
                 /\ C16_Trimmed(payload) = Cmd_button_pressed => pc'["mqtt"] = "bp_check"
                 /\ C16_Trimmed(payload) \in {Cmd_true, Cmd_start, Cmd_record}
                       => pc'["mqtt"] = "sr_check"
                 /\ C16_Trimmed(payload) \in {Cmd_false, Cmd_stop, Cmd_transcribe}
                       => pc'["mqtt"] = "st_check"
                 /\ C16_Trimmed(payload) \notin {Cmd_button_pressed, Cmd_true, Cmd_start,
                                                 Cmd_record, Cmd_false, Cmd_stop,
                                                 Cmd_transcribe}
                       => pc'["mqtt"] = "om_return"
                 /\ UNCHANGED <<recVars, topicVars, ret, transcript, volVars>>
        /\ (pc["mqtt"] = "bp_check" /\ MqttStepped)
              => /\ pc'["mqtt"] = IF Recording THEN "st_check" ELSE "sr_check"
                 /\ UNCHANGED <<recVars, topicVars, ret, transcript, volVars>>
        /\ (pc["mqtt"] = "om_return" /\ ret["mqtt"] = NoRet /\ MqttStepped)
              => /\ pc'["mqtt"] = "idle"
                 /\ UNCHANGED <<recVars, topicVars, ret, transcript, volVars>> ]_vars

\* C16 witness: a button_pressed message has been dispatched while a recording
\* is live (only that payload leads to the test of lines 275-277).
C16_Witness ==
    /\ pc["mqtt"] = "bp_check"
    /\ Recording
    /\ statusTopic = "Recording"

\* C17: stop_recording_and_transcribe on a live recording with a successful
\* transcription goes through its steps in this order and no other: terminate
\* (stop signal), wait (the process has ended), handle cleared, "Processing
\* Request" sent, whisper-cli run, the parsed command published on the query
\* topic, the empty status sent, return. The listener sends the empty status
\* only right after the query publish, and the handle is None all the time
\* transcribe_audio runs on the listener.
C17_TranscribePcs == {"ta_exists", "ta_processing", "ta_whisper", "ta_send", "ta_clear"}

C17_StopStepsInOrder ==
    [][ MqttStepped =>
          /\ pc["mqtt"] = "st_terminate"
                => /\ pc'["mqtt"] = "st_wait"
                   /\ Recording => procs'[recording_process] = "terminating"
                   /\ UNCHANGED <<recording_process, statusTopic, queryTopic>>
          /\ pc["mqtt"] = "st_wait"
                => /\ ~Recording
                   /\ recording_process' = 0
                   /\ pc'["mqtt"] = "ta_exists"
                   /\ UNCHANGED <<statusTopic, queryTopic>>
          /\ pc["mqtt"] \in C17_TranscribePcs => recording_process = 0 /\ recording_process' = 0
          /\ pc["mqtt"] = "ta_processing"
                => /\ pc'["mqtt"] = "ta_whisper"
                   /\ statusTopic' \in {"Processing Request", statusTopic}
                   /\ UNCHANGED <<queryTopic, transcript>>
          /\ (pc["mqtt"] = "ta_whisper" /\ pc'["mqtt"] # "ta_err")
                => /\ pc'["mqtt"] = "ta_send"
                   /\ transcript'["mqtt"] \in Transcripts
                   /\ UNCHANGED <<statusTopic, queryTopic>>
          /\ pc["mqtt"] = "ta_send"
                => /\ pc'["mqtt"] = "ta_clear"
                   /\ queryTopic' \in {parse_voice_command(transcript["mqtt"]), queryTopic}
                   /\ UNCHANGED statusTopic
          /\ pc["mqtt"] = "ta_clear"
                => /\ pc'["mqtt"] = "st_return"
                   /\ statusTopic' \in {"", statusTopic}
                   /\ UNCHANGED queryTopic
          /\ (statusTopic' = "" /\ statusTopic # "") => pc["mqtt"] = "ta_clear"
          /\ (pc["mqtt"] = "st_return" /\ ret["mqtt"] = Return("transcribe_audio", 247, TRUE))
                => /\ ret'["mqtt"] = Return("stop_recording_and_transcribe", 213, TRUE)
                   /\ UNCHANGED <<recording_process, statusTopic, queryTopic>> ]_vars

\* C17 witness: a stop on the listener has run to the end of a successful
\* transcription: the parsed command is on the query topic, the status is
\* empty and the handle is None.
C17_Witness ==
    /\ pc["mqtt"] = "st_return"
    /\ ret["mqtt"] = Return("transcribe_audio", 247, TRUE)
    /\ queryTopic \in {parse_voice_command(text) : text \in Transcripts}
    /\ statusTopic = ""
    /\ recording_process = 0

\* C18: the V command (start path, stop path, join) changes neither
\* recording_process nor any capture process, and start_recording,
\* stop_recording_and_transcribe and the transcription they run change neither
\* volume_monitoring nor volume_thread nor any monitor thread, whatever the
\* main loop, the listener and the monitor threads are doing meanwhile.
C18_AxesIndependent ==
    [][ /\ (pc["main"] \in {"v_toggle", "v_join"} /\ pc'["main"] # pc["main"])
              => UNCHANGED <<recording_process, procs, localProc, fileExists>>
        /\ (MqttStepped /\ pc["mqtt"] \notin {"idle", "om_return"})
              => UNCHANGED <<adc_available, volume_monitoring, volume_thread, monitors>> ]_vars

\* C18 witness: the V stop path is waiting in join for a monitor thread that is
\* inside set_volume while the listener waits for the capture process it has
\* just signalled.
C18_Witness ==
    /\ pc["main"] = "v_join"
    /\ monitors[volume_thread] = "set"
    /\ pc["mqtt"] = "st_wait"
    /\ procs[recording_process] = "terminating"

\* C19: the volume a tick applies is round(sample * 91) + 9 for every sample
\* in [0, 1], hence in 9..100: 9 for sample 0.0, 100 for sample 1.0 and 55 for
\* sample 0.5.
C19_Round(num, den) ==
    LET q == num \div den
        r == num % den
    IN  IF 2 * r < den THEN q
        ELSE IF 2 * r > den THEN q + 1
        ELSE IF q % 2 = 0 THEN q ELSE q + 1

C19_VolumeMapping ==
    actual_volume # 0 =>
        /\ actual_volume = C19_Round(adc_value * 91, AdcScale) + 9
        /\ actual_volume \in 9..100

\* C20: parse_voice_command returns a string for every transcript; when the
\* text left after the verb has no " by " in it, the whole of it is the
\* subject (every word of it is in the result, in order); and "Play
\* Thunderstruck by AC/DC" gives "Thunderstruck Ac/dc", "play, don't stop
\* believin' by journey" gives "Don't Stop Believin' Journey", "hello world"
\* gives "Hello World" and "" gives "".
C20_Chars ==
    {UpperCase[i] : i \in 1..Len(UpperCase)} \cup {LowerCase[i] : i \in 1..Len(LowerCase)}
        \cup {" ", "\t", "\n", ",", ".", "'", "/"}

C20_Expected ==
    { <<<<"P","l","a","y"," ","T","h","u","n","d","e","r","s","t","r","u","c",
          "k"," ","b","y"," ","A","C","/","D","C">>,
        <<"T","h","u","n","d","e","r","s","t","r","u","c","k"," ","A","c","/",
          "d","c">>>>,
      <<<<"p","l","a","y",","," ","d","o","n","'","t"," ","s","t","o","p"," ",
          "b","e","l","i","e","v","i","n","'"," ","b","y"," ","j","o",
          "u","r","n","e","y">>,
        <<"D","o","n","'","t"," ","S","t","o","p"," ","B","e","l","i","e","v",
          "i","n","'"," ","J","o","u","r","n","e","y">>>>,
      <<<<"h","e","l","l","o"," ","w","o","r","l","d">>,
        <<"H","e","l","l","o"," ","W","o","r","l","d">>>>,
      <<<<>>, <<>>>> }

\* The text without its verb and without commas and periods around it.
C20_Remainder(text) ==
    LET trimmed == strip(text, Whitespace)
        rest == IF startswith(lower(trimmed), <<"p","l","a","y",","," ">>)
                THEN strip(slice_from(trimmed, 6), Whitespace)
                ELSE IF startswith(lower(trimmed), <<"p","l","a","y"," ">>)
                THEN strip(slice_from(trimmed, 5), Whitespace)
                ELSE trimmed
    IN  strip(rest, {",", "."})

C21_QueryIsNormalized ==
    /\ queryTopic \in {NoQuery, EmptyQuery}
                         \cup {parse_voice_command(text) : text \in Transcripts}
    /\ queryTopic \notin Transcripts

\* C21 witness: a parsed transcript has just been published on the query topic
\* by the listener, after start_recording had cleared the topic.
C21_Witness ==
    /\ pc["mqtt"] = "ta_clear"
    /\ ret["mqtt"] = Return("send_to_nodered", 141, TRUE)
    /\ queryTopic \in {parse_voice_command(text) : text \in Transcripts}

\* C22: a monitor thread whose cancellation was requested (volume_monitoring
\* was set to False while it ran) finishes at most the tick it is in and then
\* ends, whatever is typed afterwards. A live thread other than volume_thread
\* is one that was cancelled before its successor was started (line 476 starts
\* a thread only while the flag is False), so: only volume_thread ever passes
\* the loop test of line 335 and begins a tick.
C22_CancelledMonitorStops ==
    [][ \A m \in MonIds :
          (monitors[m] = "loop" /\ monitors'[m] = "tick") => m = volume_thread ]_vars

\* C23: the title-casing of parse_voice_command changes only the first
\* character of each whitespace-separated token of the song and of the artist:
\* the result has the same tokens as the input, and every character after the
\* first of a token is the one the transcript had.
C23_Tokens(text) ==
    LET rest == C20_Remainder(text)
        by_index == find(lower(rest), <<" ","b","y"," ">>)
    IN  IF by_index = -1
        THEN split(rest)
        ELSE split(slice_to(rest, by_index)) \o split(slice_from(rest, by_index + 4))

C23_TitleCaseKeepsRest ==
    [][ \A t \in Threads :
          (pc[t] = "ta_send" /\ pc'[t] = "ta_clear"
              /\ ret'[t] = Return("send_to_nodered", 141, TRUE))
             => /\ Len(split(queryTopic')) = Len(C23_Tokens(transcript[t]))
                /\ \A i \in 1..Len(C23_Tokens(transcript[t])) :
                      Tail(split(queryTopic')[i]) = Tail(C23_Tokens(transcript[t])[i]) ]_vars

\* C24: the result of parse_voice_command never begins or ends with whitespace:
\* when " by " is found and the song or the artist is empty, the space that
\* joins them is trimmed.
C24_ResultIsTrimmed ==
    [][ \A t \in Threads :
          (pc[t] = "ta_send" /\ pc'[t] = "ta_clear"
              /\ ret'[t] = Return("send_to_nodered", 141, TRUE))
             => queryTopic' = strip(queryTopic', Whitespace) ]_vars

C26_Quiescent ==
    /\ LiveProcs = {}
    /\ pc["mqtt"] \in {"idle", "failed"}
    /\ pc["main"] \in {"prompt", "done"}
C27_HandlerEntries == {"bp_check", "sr_check", "st_check"}
====
